---------------------------- MODULE Spec2Model ----------------------------
(***************************************************************************)
(* World Clock (script.js): one mutable variable, selectedTimezone, a      *)
(* timezone bar built once from getAllTimeZones(), top-row city buttons    *)
(* taken from the page's markup, and a one-second timer that re-renders    *)
(* the time and date.  Every handler of the page runs to completion on the *)
(* single event loop, so every handler is one action.                      *)
(*                                                                         *)
(* Strings are sequences of one-character strings, so that the two string  *)
(* helpers are computed character by character as the regular expressions  *)
(* of the source do.                                                       *)
(***************************************************************************)
EXTENDS Integers, Sequences, FiniteSets, TLC

VARIABLES
    platform,           \* the runtime: Intl, Intl.supportedValuesOf, tz database
    coreCityButtons,    \* the '.city' buttons of the markup (script.js:12)
    tzButtons,          \* the '.tz-btn' buttons in #timezone-bar
    selectedTimezone,   \* script.js:8
    cityNameEl,         \* textContent of #city-name
    clockEl,            \* textContent of #clock
    dateEl,             \* textContent of #date
    timer,              \* TRUE once setInterval(updateClock, 1000) has run
    now,                \* the instant new Date() reads, seconds after Epoch
    pc,                 \* "load": init() not yet called; "running": after it
    lastCall,           \* history: the handler that ran last and how it ended
    shown,              \* history: the timezone and instant each slot was computed for
    catalog,            \* history: what getAllTimeZones() did when init() called it
    probe               \* input and output of a string helper under test

vars == <<platform, coreCityButtons, tzButtons, selectedTimezone, cityNameEl,
          clockEl, dateEl, timer, now, pc, lastCall, shown, catalog, probe>>

-----------------------------------------------------------------------------
(* Bounds of the model. *)

\* longest string handed to a string helper, beside the named identifiers
MaxLen == 3
\* most top-row city buttons in the markup
MaxCore == 2
\* seconds the clock advances during a run
MaxNow == 1

-----------------------------------------------------------------------------
(* Timezone identifiers, written out as character sequences. *)

PacificAuckland == <<"P", "a", "c", "i", "f", "i", "c", "/", "A", "u", "c", "k", "l", "a", "n", "d">>
AustraliaBrisbane == <<"A", "u", "s", "t", "r", "a", "l", "i", "a", "/", "B", "r", "i", "s", "b", "a", "n", "e">>
AsiaTokyo == <<"A", "s", "i", "a", "/", "T", "o", "k", "y", "o">>
AsiaKolkata == <<"A", "s", "i", "a", "/", "K", "o", "l", "k", "a", "t", "a">>
EuropeLondon == <<"E", "u", "r", "o", "p", "e", "/", "L", "o", "n", "d", "o", "n">>
EuropeParis == <<"E", "u", "r", "o", "p", "e", "/", "P", "a", "r", "i", "s">>
EuropeBerlin == <<"E", "u", "r", "o", "p", "e", "/", "B", "e", "r", "l", "i", "n">>
AmericaNewYork == <<"A", "m", "e", "r", "i", "c", "a", "/", "N", "e", "w", "_", "Y", "o", "r", "k">>
AmericaLosAngeles == <<"A", "m", "e", "r", "i", "c", "a", "/", "L", "o", "s", "_", "A", "n", "g", "e", "l", "e", "s">>
AmericaChicago == <<"A", "m", "e", "r", "i", "c", "a", "/", "C", "h", "i", "c", "a", "g", "o">>
AmericaDenver == <<"A", "m", "e", "r", "i", "c", "a", "/", "D", "e", "n", "v", "e", "r">>
UTC == <<"U", "T", "C">>

\* two zones of the database whose names differ in one stripped character
EtcGMTPlus1 == <<"E", "t", "c", "/", "G", "M", "T", "+", "1">>
EtcGMTMinus1 == <<"E", "t", "c", "/", "G", "M", "T", "-", "1">>

\* an identifier no timezone database knows
MarsPhobos == <<"M", "a", "r", "s", "/", "P", "h", "o", "b", "o", "s">>

\* the strings the documentation gives as results
BrisbaneLabel == <<"B", "r", "i", "s", "b", "a", "n", "e">>
NewYorkLabel == <<"N", "e", "w", " ", "Y", "o", "r", "k">>
BrisbaneKey == <<"a", "u", "s", "t", "r", "a", "l", "i", "a", "-", "b", "r", "i", "s", "b", "a", "n", "e">>

\* the empty string, and the value of a data attribute the markup does not set
EmptyString == << >>
Undefined == <<"undefined">>

-----------------------------------------------------------------------------
(* Characters. *)

UpperCase == <<"A", "B", "C", "D", "E", "F", "G", "H", "I", "J", "K", "L", "M",
               "N", "O", "P", "Q", "R", "S", "T", "U", "V", "W", "X", "Y", "Z">>
LowerCase == <<"a", "b", "c", "d", "e", "f", "g", "h", "i", "j", "k", "l", "m",
               "n", "o", "p", "q", "r", "s", "t", "u", "v", "w", "x", "y", "z">>
Digits == {"0", "1", "2", "3", "4", "5", "6", "7", "8", "9"}

Range(s) == {s[i] : i \in DOMAIN s}

\* \s of a JavaScript regular expression (the members the model's inputs use)
IsWhitespace(c) == c \in {" ", "\t", "\n"}

\* the class [A-Za-z0-9-_]
IsWordChar(c) == c \in Range(UpperCase) \cup Range(LowerCase) \cup Digits \cup {"-", "_"}

\* String.prototype.toLowerCase on one character
ToLowerChar(c) ==
    IF c \in Range(UpperCase)
    THEN LowerCase[CHOOSE i \in DOMAIN UpperCase : UpperCase[i] = c]
    ELSE c

-----------------------------------------------------------------------------
(* sanitizeTestId: three replace passes and toLowerCase, in the order of   *)
(* the source.                                                             *)

RECURSIVE ReplaceSlashes(_)
ReplaceSlashes(s) ==
    IF s = << >> THEN << >>
    ELSE <<IF Head(s) = "/" THEN "-" ELSE Head(s)>> \o ReplaceSlashes(Tail(s))

RECURSIVE SkipWhitespace(_)
SkipWhitespace(s) ==
    IF s # << >> /\ IsWhitespace(Head(s)) THEN SkipWhitespace(Tail(s)) ELSE s

RECURSIVE ReplaceWhitespaceRuns(_)
ReplaceWhitespaceRuns(s) ==
    IF s = << >> THEN << >>
    ELSE IF IsWhitespace(Head(s))
         THEN <<"-">> \o ReplaceWhitespaceRuns(SkipWhitespace(s))
         ELSE <<Head(s)>> \o ReplaceWhitespaceRuns(Tail(s))

StripNonWordChars(s) == SelectSeq(s, IsWordChar)

ToLowerCase(s) == [i \in DOMAIN s |-> ToLowerChar(s[i])]

\* sanitizeTestId whose last class, [^A-Za-z0-9_], strips the hyphen too
sanitizeTestIdStripHyphens(tz) ==
    ToLowerCase(SelectSeq(StripNonWordChars(ReplaceWhitespaceRuns(ReplaceSlashes(tz))),
                          LAMBDA c : c # "-"))

\* sanitizeTestId without the final toLowerCase()
sanitizeTestIdNoLowerCase(tz) ==
    StripNonWordChars(ReplaceWhitespaceRuns(ReplaceSlashes(tz)))

sanitizeTestId(tz) ==
    ToLowerCase(StripNonWordChars(ReplaceWhitespaceRuns(ReplaceSlashes(tz))))

-----------------------------------------------------------------------------
(* prettyLabelFromTimezone: tz.split('/').pop(), then '_' -> ' ' when the  *)
(* part is truthy, else tz itself.                                         *)

RECURSIVE SplitAcc(_, _, _)
SplitAcc(s, sep, cur) ==
    IF s = << >> THEN <<cur>>
    ELSE IF Head(s) = sep
         THEN <<cur>> \o SplitAcc(Tail(s), sep, << >>)
         ELSE SplitAcc(Tail(s), sep, Append(cur, Head(s)))

Split(s, sep) == SplitAcc(s, sep, << >>)

Pop(parts) == parts[Len(parts)]

ReplaceUnderscores(s) == [i \in DOMAIN s |-> IF s[i] = "_" THEN " " ELSE s[i]]

\* JavaScript truthiness of a string or of undefined
Truthy(v) == v # Undefined /\ v # EmptyString

\* prettyLabelFromTimezone without the replace(/_/g, ' ')
prettyLabelKeepUnderscores(tz) ==
    LET part == Pop(Split(tz, "/"))
    IN  IF Truthy(part) THEN part ELSE tz

prettyLabelFromTimezone(tz) ==
    LET part == Pop(Split(tz, "/"))
    IN  IF Truthy(part) THEN ReplaceUnderscores(part) ELSE tz

-----------------------------------------------------------------------------
(* The runtime the page runs on.                                           *)
(*   intl              typeof Intl === 'object'                            *)
(*   supportedValuesOf "absent": not a function; "throws": the call throws;*)
(*                     "returns": the call returns zones                   *)
(*   zones             what Intl.supportedValuesOf('timeZone') returns     *)
(*   resolvable        the identifiers Intl.DateTimeFormat accepts as      *)
(*                     timeZone; any other makes the constructor throw     *)

FallbackZones ==
    <<PacificAuckland, AustraliaBrisbane, AsiaTokyo, AsiaKolkata,
      EuropeLondon, EuropeParis, EuropeBerlin, AmericaNewYork,
      AmericaLosAngeles, AmericaChicago, AmericaDenver, UTC>>

TzDatabase == Range(FallbackZones) \cup {EtcGMTPlus1, EtcGMTMinus1}

\* lists a runtime (or a test double of it) may report
PlatformLists ==
    { << >>,
      <<AustraliaBrisbane>>,
      <<AsiaTokyo, AustraliaBrisbane, UTC>>,
      <<UTC, AustraliaBrisbane>>,
      <<EtcGMTPlus1, EtcGMTMinus1>>,
      <<UTC, UTC>> }

Platforms ==
    {[intl |-> FALSE, supportedValuesOf |-> "absent", zones |-> << >>, resolvable |-> {}]}
    \cup {[intl |-> TRUE, supportedValuesOf |-> "absent", zones |-> << >>, resolvable |-> r] :
             r \in {TzDatabase, TzDatabase \ {AsiaKolkata}}}
    \cup {[intl |-> TRUE, supportedValuesOf |-> "throws", zones |-> << >>, resolvable |-> TzDatabase]}
    \cup {[intl |-> TRUE, supportedValuesOf |-> "returns", zones |-> z, resolvable |-> TzDatabase] :
             z \in PlatformLists}

\* the call Intl.supportedValuesOf('timeZone')
SupportedValuesOf(p) ==
    [threw |-> p.supportedValuesOf = "throws", value |-> p.zones]

\* getAllTimeZones without the try/catch around the call
getAllTimeZonesNoCatch(p) ==
    IF p.intl /\ p.supportedValuesOf # "absent"
    THEN SupportedValuesOf(p)
    ELSE [threw |-> FALSE, value |-> FallbackZones]

\* getAllTimeZones handing the platform's list back in reverse order
getAllTimeZonesReversed(p) ==
    LET r == SupportedValuesOf(p)
    IN  IF p.intl /\ p.supportedValuesOf # "absent" /\ ~r.threw
        THEN [threw |-> FALSE,
              value |-> [i \in DOMAIN r.value |-> r.value[Len(r.value) + 1 - i]]]
        ELSE [threw |-> FALSE, value |-> FallbackZones]

\* threw: whether an exception leaves the function; value: what it returns
getAllTimeZones(p) ==
    LET r == SupportedValuesOf(p)
    IN  IF p.intl /\ p.supportedValuesOf # "absent" /\ ~r.threw
        THEN [threw |-> FALSE, value |-> r.value]
        ELSE [threw |-> FALSE, value |-> FallbackZones]

-----------------------------------------------------------------------------
(* The Formatter.  The runtime's date formatting is a function of the zone *)
(* and the instant: the time string is the second of the zone's day, the   *)
(* date string the number of the zone's day.                               *)

SecondsPerHour == 60 * 60
SecondsPerDay == 24 * SecondsPerHour

\* the instant at which now = 0: 20:00:00 UTC of day 0
Epoch == 20 * SecondsPerHour

\* offset from UTC, in seconds, of a zone of the database
UtcOffset(tz) ==
    CASE tz = PacificAuckland   -> 12 * SecondsPerHour
      [] tz = AustraliaBrisbane -> 10 * SecondsPerHour
      [] tz = AsiaTokyo         -> 9 * SecondsPerHour
      [] tz = AsiaKolkata       -> 5 * SecondsPerHour + 30 * 60
      [] tz = EuropeParis       -> SecondsPerHour
      [] tz = EuropeBerlin      -> SecondsPerHour
      [] tz = AmericaNewYork    -> 0 - 5 * SecondsPerHour
      [] tz = AmericaChicago    -> 0 - 6 * SecondsPerHour
      [] tz = AmericaDenver     -> 0 - 7 * SecondsPerHour
      [] tz = AmericaLosAngeles -> 0 - 8 * SecondsPerHour
      [] tz = EtcGMTPlus1       -> 0 - SecondsPerHour
      [] tz = EtcGMTMinus1      -> SecondsPerHour
      [] OTHER                  -> 0

\* the text a slot holds before the script writes it
MarkupText == -1

LocalSeconds(tz, t) == Epoch + t + UtcOffset(tz)

\* formatForTimezone whose date formatter is not given the timeZone option
formatForTimezoneDateInDefaultZone(timezone, p, t) ==
    IF ~p.intl \/ timezone \notin p.resolvable
    THEN [threw |-> TRUE, time |-> MarkupText, date |-> MarkupText]
    ELSE [threw |-> FALSE,
          time  |-> LocalSeconds(timezone, t) % SecondsPerDay,
          date  |-> LocalSeconds(AustraliaBrisbane, t) \div SecondsPerDay]

\* formatForTimezone, reading the instant t from new Date()
formatForTimezone(timezone, p, t) ==
    IF ~p.intl \/ timezone \notin p.resolvable
    THEN [threw |-> TRUE, time |-> MarkupText, date |-> MarkupText]
    ELSE [threw |-> FALSE,
          time  |-> LocalSeconds(timezone, t) % SecondsPerDay,
          date  |-> LocalSeconds(timezone, t) \div SecondsPerDay]

-----------------------------------------------------------------------------
(* Rendering.  Each operator returns what the function of the source       *)
(* leaves in the elements it writes.                                       *)

\* how often the time slot has been written: "none", "once", "many"
Bump(n) == IF n = "none" THEN "once" ELSE "many"

\* updateClock that writes the time slot before the formatter is asked
updateClockWriteFirst(sel, p, t, d) ==
    LET f == formatForTimezone(sel, p, t)
    IN  [threw |-> f.threw, clock |-> f.time, date |-> IF f.threw THEN d.date ELSE f.date,
         shown |-> [d.shown EXCEPT !.clockTz = sel, !.clockAt = t,
                                   !.writes = Bump(d.shown.writes)]]

\* updateClock: d is the display before the call (clock, date, shown)
updateClock(sel, p, t, d) ==
    LET f == formatForTimezone(sel, p, t)
    IN  IF f.threw
        THEN [threw |-> TRUE, clock |-> d.clock, date |-> d.date, shown |-> d.shown]
        ELSE [threw |-> FALSE, clock |-> f.time, date |-> f.date,
              shown |-> [clockTz |-> sel, clockAt |-> t, dateTz |-> sel, dateAt |-> t,
                         writes |-> Bump(d.shown.writes)]]

SetActive(btns, sel) ==
    [i \in DOMAIN btns |-> [btns[i] EXCEPT !.active = (btns[i].timezone = sel)]]

\* updateActiveStates that only ever adds the active class
updateActiveStatesNoClear(core, bar, sel) ==
    [core |-> [i \in DOMAIN core |->
                  [core[i] EXCEPT !.active = @ \/ (core[i].timezone = sel)]],
     bar  |-> [i \in DOMAIN bar |->
                  [bar[i] EXCEPT !.active = @ \/ (bar[i].timezone = sel)]]]

\* updateActiveStates with classList.toggle in place of add
updateActiveStatesToggle(core, bar, sel) ==
    [core |-> [i \in DOMAIN core |->
                  [core[i] EXCEPT !.active = IF core[i].timezone = sel THEN ~@ ELSE FALSE]],
     bar  |-> [i \in DOMAIN bar |->
                  [bar[i] EXCEPT !.active = IF bar[i].timezone = sel THEN ~@ ELSE FALSE]]]

\* updateActiveStates: the top-row buttons, then the '.tz-btn' buttons
updateActiveStates(core, bar, sel) ==
    [core |-> SetActive(core, sel), bar |-> SetActive(bar, sel)]

\* updateCityName showing the identifier itself
updateCityNameRaw(sel) == sel

updateCityName(sel) == prettyLabelFromTimezone(sel)

Display == [clock |-> clockEl, date |-> dateEl, shown |-> shown]

\* selectTimezone that does not re-render the clock
selectTimezoneNoClock(tz) ==
    LET a == updateActiveStates(coreCityButtons, tzButtons, tz)
    IN  [selectedTimezone |-> tz, cityName |-> updateCityName(tz),
         core |-> a.core, bar |-> a.bar,
         clock |-> clockEl, date |-> dateEl, shown |-> shown, threw |-> FALSE]

\* selectTimezone that leaves the city name alone
selectTimezoneNoCityName(tz) ==
    LET a == updateActiveStates(coreCityButtons, tzButtons, tz)
        c == updateClock(tz, platform, now, Display)
    IN  [selectedTimezone |-> tz, cityName |-> cityNameEl,
         core |-> a.core, bar |-> a.bar,
         clock |-> c.clock, date |-> c.date, shown |-> c.shown, threw |-> c.threw]

\* selectTimezone(tz): the state it leaves, and whether updateClock threw
selectTimezone(tz) ==
    LET a == updateActiveStates(coreCityButtons, tzButtons, tz)
        c == updateClock(tz, platform, now, Display)
    IN  [selectedTimezone |-> tz, cityName |-> updateCityName(tz),
         core |-> a.core, bar |-> a.bar,
         clock |-> c.clock, date |-> c.date, shown |-> c.shown, threw |-> c.threw]

\* buildTimezoneBar inserting each button before the others
buildTimezoneBarPrepend(zones) ==
    [i \in DOMAIN zones |->
        [timezone    |-> zones[Len(zones) + 1 - i],
         testid      |-> sanitizeTestId(zones[Len(zones) + 1 - i]),
         textContent |-> prettyLabelFromTimezone(zones[Len(zones) + 1 - i]),
         active      |-> FALSE]]

\* buildTimezoneBar: one button per zone, in the order of zones
buildTimezoneBar(zones) ==
    [i \in DOMAIN zones |->
        [timezone    |-> zones[i],
         testid      |-> sanitizeTestId(zones[i]),
         textContent |-> prettyLabelFromTimezone(zones[i]),
         active      |-> FALSE]]

\* initCoreButtons: every top-row button gets its click listener
initCoreButtons(core) == [i \in DOMAIN core |-> [core[i] EXCEPT !.listening = TRUE]]

-----------------------------------------------------------------------------
(* The state when the script starts: the markup and the runtime are given. *)

DefaultTimezone == AustraliaBrisbane

RECURSIVE SeqsUpTo(_, _)
SeqsUpTo(S, n) ==
    IF n = 0 THEN {<< >>}
    ELSE LET shorter == SeqsUpTo(S, n - 1)
         IN  shorter \cup {Append(q, x) : q \in {r \in shorter : Len(r) = n - 1}, x \in S}

\* data-timezone values a top-row button may carry
CoreTags == {Undefined, EmptyString, AustraliaBrisbane, UTC}

\* the top-row buttons as the markup gives them: any tags, the active class
\* either on every button or on none
CoreMarkups ==
    {[i \in DOMAIN tags |-> [timezone |-> tags[i], active |-> m, listening |-> FALSE]] :
        tags \in SeqsUpTo(CoreTags, MaxCore), m \in BOOLEAN}

\* lastCall: the handler that ran last (op, arg), whether an exception left
\* it (threw), the instant it ran at (at), the argument of the latest
\* selectTimezone call so far (selected), and whether the handler directly
\* before it was the same selectTimezone call at the same instant (again)
NoCall ==
    [op |-> "none", arg |-> Undefined, threw |-> FALSE, at |-> 0,
     selected |-> DefaultTimezone, again |-> FALSE]

Called(op, arg, threw) ==
    [op |-> op, arg |-> arg, threw |-> threw, at |-> now,
     selected |-> IF op = "selectTimezone" THEN arg ELSE lastCall.selected,
     again |-> /\ op = "selectTimezone"
               /\ lastCall.op = "selectTimezone"
               /\ lastCall.arg = arg
               /\ lastCall.at = now]

NothingShown ==
    [clockTz |-> Undefined, clockAt |-> 0, dateTz |-> Undefined, dateAt |-> 0,
     writes |-> "none"]

NoCatalog == [threw |-> FALSE, value |-> << >>]

NoProbe == [fn |-> "none", in |-> EmptyString, out |-> EmptyString]

Init ==
    /\ platform \in Platforms
    /\ coreCityButtons \in CoreMarkups
    /\ tzButtons = << >>
    /\ selectedTimezone = DefaultTimezone
    /\ cityNameEl = EmptyString
    /\ clockEl = MarkupText
    /\ dateEl = MarkupText
    /\ timer = FALSE
    /\ now = 0
    /\ pc = "load"
    /\ lastCall = NoCall
    /\ shown = NothingShown
    /\ catalog = NoCatalog
    /\ probe = NoProbe

-----------------------------------------------------------------------------
(* The handlers. *)

\* init(): the calls of lines 116-121 in order; an exception ends it there
init ==
    /\ pc = "load"
    /\ pc' = "running"
    /\ \E z \in {getAllTimeZones(platform)} :
        /\ catalog' = z
        /\ IF z.threw
           THEN /\ lastCall' = Called("init", Undefined, TRUE)
                /\ UNCHANGED <<coreCityButtons, tzButtons, cityNameEl, clockEl,
                               dateEl, timer, shown>>
           ELSE \E a \in {updateActiveStates(initCoreButtons(coreCityButtons),
                                              buildTimezoneBar(z.value), selectedTimezone)},
                   c \in {updateClock(selectedTimezone, platform, now, Display)} :
                    /\ cityNameEl' = updateCityName(selectedTimezone)
                    /\ coreCityButtons' = a.core
                    /\ tzButtons' = a.bar
                    /\ clockEl' = c.clock
                    /\ dateEl' = c.date
                    /\ shown' = c.shown
                    /\ timer' = ~c.threw
                    /\ lastCall' = Called("init", Undefined, c.threw)
    /\ UNCHANGED <<platform, selectedTimezone, now, probe>>

\* the state selectTimezone(tz) leaves, as the click handlers apply it
Select(tz) ==
    \E r \in {selectTimezone(tz)} :
        /\ selectedTimezone' = r.selectedTimezone
        /\ cityNameEl' = r.cityName
        /\ coreCityButtons' = r.core
        /\ tzButtons' = r.bar
        /\ clockEl' = r.clock
        /\ dateEl' = r.date
        /\ shown' = r.shown
        /\ lastCall' = Called("selectTimezone", tz, r.threw)

\* click on the i-th button of the timezone bar (listener of line 99)
ClickTzButton(i) ==
    /\ pc = "running"
    /\ i \in DOMAIN tzButtons
    /\ Select(tzButtons[i].timezone)
    /\ UNCHANGED <<platform, timer, now, pc, catalog, probe>>

\* the top-row listener without its if(tz) guard
ClickCoreButtonNoGuard(i) ==
    /\ pc = "running"
    /\ i \in DOMAIN coreCityButtons
    /\ coreCityButtons[i].listening
    /\ Select(coreCityButtons[i].timezone)
    /\ UNCHANGED <<platform, timer, now, pc, catalog, probe>>

\* click on the i-th top-row button (listener of lines 107-110)
ClickCoreButton(i) ==
    /\ pc = "running"
    /\ i \in DOMAIN coreCityButtons
    /\ coreCityButtons[i].listening
    /\ LET tz == coreCityButtons[i].timezone
       IN  IF Truthy(tz)
           THEN Select(tz)
           ELSE /\ lastCall' = Called("click", tz, FALSE)
                /\ UNCHANGED <<selectedTimezone, cityNameEl, coreCityButtons,
                               tzButtons, clockEl, dateEl, shown>>
    /\ UNCHANGED <<platform, timer, now, pc, catalog, probe>>

\* a timer set with setTimeout: it fires once
TimerTickOnce ==
    /\ timer
    /\ timer' = FALSE
    /\ \E c \in {updateClock(selectedTimezone, platform, now, Display)} :
           /\ clockEl' = c.clock
           /\ dateEl' = c.date
           /\ shown' = c.shown
           /\ lastCall' = Called("updateClock", Undefined, c.threw)
    /\ UNCHANGED <<platform, coreCityButtons, tzButtons, selectedTimezone,
                   cityNameEl, now, pc, catalog, probe>>

\* the interval timer re-selecting the default zone on every tick
TimerTickSelectsDefault ==
    /\ timer
    /\ \E r \in {selectTimezone(DefaultTimezone)} :
           /\ selectedTimezone' = r.selectedTimezone
           /\ cityNameEl' = r.cityName
           /\ coreCityButtons' = r.core
           /\ tzButtons' = r.bar
           /\ clockEl' = r.clock
           /\ dateEl' = r.date
           /\ shown' = r.shown
           /\ lastCall' = Called("updateClock", Undefined, r.threw)
    /\ UNCHANGED <<platform, timer, now, pc, catalog, probe>>

\* the interval timer fires: updateClock()
TimerTick ==
    /\ timer
    /\ \E c \in {updateClock(selectedTimezone, platform, now, Display)} :
           /\ clockEl' = c.clock
           /\ dateEl' = c.date
           /\ shown' = c.shown
           /\ lastCall' = Called("updateClock", Undefined, c.threw)
    /\ UNCHANGED <<platform, coreCityButtons, tzButtons, selectedTimezone,
                   cityNameEl, timer, now, pc, catalog, probe>>

\* a second passes
Elapse ==
    /\ now < MaxNow
    /\ now' = now + 1
    /\ UNCHANGED <<platform, coreCityButtons, tzButtons, selectedTimezone,
                   cityNameEl, clockEl, dateEl, timer, pc, lastCall, shown, catalog,
                   probe>>

Next ==
    \/ init
    \/ \E i \in 1..Len(tzButtons) : ClickTzButton(i)
    \/ \E i \in 1..Len(coreCityButtons) : ClickCoreButton(i)
    \/ TimerTick
    \/ Elapse

Spec == Init /\ [][Next]_vars

\* The runs whose liveness is checked: a runtime without Intl, one whose
\* database lacks a zone of the fallback list, and one that reports a list;
\* at most one top-row button, not marked active.
LivePlatforms ==
    {p \in Platforms :
        \/ ~p.intl
        \/ p.resolvable # TzDatabase
        \/ p.zones = <<AsiaTokyo, AustraliaBrisbane, UTC>>}

LiveMarkups ==
    {m \in CoreMarkups : Len(m) <= 1 /\ \A i \in DOMAIN m : ~m[i].active}

LiveInit == Init /\ platform \in LivePlatforms /\ coreCityButtons \in LiveMarkups

\* an armed interval keeps firing: setInterval calls updateClock every second
FairSpec == LiveInit /\ [][Next]_vars /\ WF_vars(TimerTick)

-----------------------------------------------------------------------------
(* The string helpers on their own: an input string is drawn, and a helper *)
(* is applied to it.                                                       *)

Alphabet == {"A", "b", "7", "/", "_", "-", " ", "\t", "!", "."}

ProbeInputs ==
    SeqsUpTo(Alphabet, MaxLen) \cup Range(FallbackZones) \cup {MarsPhobos}

InitStr ==
    /\ probe \in {[fn |-> "none", in |-> s, out |-> EmptyString] : s \in ProbeInputs}
    /\ platform = [intl |-> FALSE, supportedValuesOf |-> "absent", zones |-> << >>,
                   resolvable |-> {}]
    /\ coreCityButtons = << >>
    /\ tzButtons = << >>
    /\ selectedTimezone = DefaultTimezone
    /\ cityNameEl = EmptyString
    /\ clockEl = MarkupText
    /\ dateEl = MarkupText
    /\ timer = FALSE
    /\ now = 0
    /\ pc = "load"
    /\ lastCall = NoCall
    /\ shown = NothingShown
    /\ catalog = NoCatalog

ApplySanitizeTestId ==
    /\ probe' = [fn |-> "sanitizeTestId", in |-> probe.in, out |-> sanitizeTestId(probe.in)]
    /\ UNCHANGED <<platform, coreCityButtons, tzButtons, selectedTimezone, cityNameEl,
                   clockEl, dateEl, timer, now, pc, lastCall, shown, catalog>>

ApplyPrettyLabel ==
    /\ probe' = [fn |-> "prettyLabelFromTimezone", in |-> probe.in,
                 out |-> prettyLabelFromTimezone(probe.in)]
    /\ UNCHANGED <<platform, coreCityButtons, tzButtons, selectedTimezone, cityNameEl,
                   clockEl, dateEl, timer, now, pc, lastCall, shown, catalog>>

NextStr == ApplySanitizeTestId \/ ApplyPrettyLabel

SpecStr == InitStr /\ [][NextStr]_vars

-----------------------------------------------------------------------------
(* What the properties below speak of. *)

\* every selectable control: top-row buttons and timezone-bar buttons
Controls ==
    {<<"core", i>> : i \in DOMAIN coreCityButtons} \cup {<<"bar", i>> : i \in DOMAIN tzButtons}

Button(c) == IF c[1] = "core" THEN coreCityButtons[c[2]] ELSE tzButtons[c[2]]

ActiveControls == {c \in Controls : Button(c).active}

Tagged(tz) == {c \in Controls : Button(c).timezone = tz}

BarControls == {c \in Controls : c[1] = "bar"}

CatalogZones == Range(catalog.value)

NoDuplicates(q) == \A i, j \in DOMAIN q : q[i] = q[j] => i = j

Resolves(tz) == platform.intl /\ tz \in platform.resolvable

PlatformSuppliesList == platform.intl /\ platform.supportedValuesOf = "returns"

\* the final segment of s: what follows its last '/', all of s when it has none
LastSlash(s) ==
    LET at == {i \in DOMAIN s : s[i] = "/"}
    IN  IF at = {} THEN 0 ELSE CHOOSE i \in at : \A j \in at : j <= i

FinalSegment(s) == SubSeq(s, LastSlash(s) + 1, Len(s))

\* t is s with every '_' turned into a space
UnderscoresAsSpaces(s, t) ==
    /\ Len(t) = Len(s)
    /\ \A i \in DOMAIN s : t[i] = IF s[i] = "_" THEN " " ELSE s[i]

\* what the i-th character of s contributes to its stable key
KeyPiece(s, i) ==
    IF s[i] = "/" THEN <<"-">>
    ELSE IF IsWhitespace(s[i])
         THEN IF i > 1 /\ IsWhitespace(s[i - 1]) THEN << >> ELSE <<"-">>
         ELSE IF IsWordChar(s[i]) THEN <<ToLowerChar(s[i])>> ELSE << >>

RECURSIVE KeyUpTo(_, _)
KeyUpTo(s, n) == IF n = 0 THEN << >> ELSE KeyUpTo(s, n - 1) \o KeyPiece(s, n)

KeyChars == Range(LowerCase) \cup Digits \cup {"-", "_"}

-----------------------------------------------------------------------------
(* C1 *)

\* C1 as stated: after selectTimezone(t), t of the catalogue, exactly one
\* control of the page is active, and it is tagged t.  Stated for the runs
\* the claim has in mind: a duplicate-free catalogue, and a call that
\* returned normally.
C1_ExactlyOneActive ==
    (/\ lastCall.op = "selectTimezone"
     /\ lastCall.arg \in CatalogZones
     /\ ~lastCall.threw
     /\ NoDuplicates(catalog.value))
        => /\ Cardinality(ActiveControls) = 1
           /\ \A c \in ActiveControls : Button(c).timezone = lastCall.arg

\* C1, amended: after selectTimezone(t), t of the catalogue, the active
\* controls are exactly the controls tagged t (every top-row button tagged t
\* and every timezone-bar button of t), and a timezone-bar button is among them.
C1_ActiveAreTheTagged ==
    (lastCall.op = "selectTimezone" /\ lastCall.arg \in CatalogZones)
        => /\ ActiveControls = Tagged(lastCall.arg)
           /\ ActiveControls \cap BarControls # {}

\* a top-row button and a timezone-bar button of the same zone, both active
C1_Witness ==
    /\ lastCall.op = "selectTimezone"
    /\ lastCall.arg = AustraliaBrisbane
    /\ lastCall.arg \in CatalogZones
    /\ \E c, d \in ActiveControls : c[1] = "core" /\ d[1] = "bar"

-----------------------------------------------------------------------------
(* C2 *)

\* C2 as stated: once init() has run, selectedTimezone is an entry of the
\* list getAllTimeZones() returned.  Stated for the catalogues that list the
\* default, so that only an activation can break it.
C2_SelectedInCatalog ==
    (pc = "running" /\ DefaultTimezone \in CatalogZones)
        => selectedTimezone \in CatalogZones

\* C2, amended: selectedTimezone is always the hard-coded default or the tag
\* of a rendered control: a catalogue entry or the non-empty tag of a top-row
\* button.
C2_SelectedIsDefaultOrTag ==
    selectedTimezone \in
        {DefaultTimezone} \cup CatalogZones
        \cup {coreCityButtons[i].timezone :
                 i \in {j \in DOMAIN coreCityButtons : Truthy(coreCityButtons[j].timezone)}}

\* a top-row button has selected a zone the catalogue does not list
C2_Witness ==
    /\ pc = "running"
    /\ lastCall.op = "selectTimezone"
    /\ selectedTimezone = UTC
    /\ UTC \notin CatalogZones

-----------------------------------------------------------------------------
(* C3 *)

\* C3 as stated: between handlers, the highlighting, the city name and the
\* zone the shown time and date were computed for all belong to the latest
\* selectTimezone argument (the default before the first).  Stated for the
\* states in which the slots show a time and a date at all.
C3_AllReflectLastSelect ==
    (pc = "running" /\ shown.writes # "none")
        => /\ ActiveControls = Tagged(lastCall.selected)
           /\ cityNameEl = prettyLabelFromTimezone(lastCall.selected)
           /\ shown.clockTz = lastCall.selected
           /\ shown.dateTz = lastCall.selected

\* C3, amended: between handlers, the highlighting and the city name belong
\* to the latest selectTimezone argument (the default before the first), and
\* so do the shown time and date unless the Formatter cannot resolve that
\* zone; then the slots keep what an earlier render left.
C3_ReflectLastSelectWhenResolvable ==
    pc = "running"
        => /\ selectedTimezone = lastCall.selected
           /\ ActiveControls = Tagged(lastCall.selected)
           /\ cityNameEl = prettyLabelFromTimezone(lastCall.selected)
           /\ Resolves(lastCall.selected)
                 => shown.clockTz = lastCall.selected /\ shown.dateTz = lastCall.selected

\* a timer tick after a selection: the slots still show the selected zone
C3_Witness ==
    /\ lastCall.op = "updateClock"
    /\ ~lastCall.threw
    /\ lastCall.selected = UTC
    /\ shown.clockTz = UTC
    /\ ActiveControls = Tagged(UTC)

-----------------------------------------------------------------------------
(* C4 *)

\* C4: a timer tick (updateClock) leaves selectedTimezone, the city name
\* and every control, its active marking included, as they were.
C4_RefreshFrame ==
    [][lastCall'.op = "updateClock"
          => UNCHANGED <<selectedTimezone, cityNameEl, coreCityButtons, tzButtons>>]_vars

\* a tick has rewritten the time slot for a zone selected earlier
C4_Witness ==
    /\ lastCall.op = "updateClock"
    /\ ~lastCall.threw
    /\ selectedTimezone = UTC
    /\ now > 0
    /\ shown.clockAt = now

-----------------------------------------------------------------------------
(* C5 *)

Observable ==
    <<selectedTimezone, cityNameEl,
      [i \in DOMAIN coreCityButtons |-> coreCityButtons[i].active],
      [i \in DOMAIN tzButtons |-> tzButtons[i].active],
      clockEl, dateEl>>

\* C5: selectTimezone(t) directly after selectTimezone(t), at the same
\* instant, leaves selectedTimezone = t and changes nothing observable.
C5_SelectIdempotent ==
    [][lastCall'.again
          => /\ selectedTimezone' = lastCall'.arg
             /\ Observable' = Observable]_vars

\* the second of two equal selections has run
C5_Witness ==
    /\ lastCall.again
    /\ ~lastCall.threw
    /\ lastCall.arg = AsiaTokyo
    /\ selectedTimezone = AsiaTokyo

-----------------------------------------------------------------------------
(* C6 *)

\* C6: getAllTimeZones() lets no exception out, and without a usable
\* Intl.supportedValuesOf (absent, or throwing) it returns the fallback
\* list, which contains "UTC".
C6_CatalogNeverFails ==
    pc = "running"
        => /\ ~catalog.threw
           /\ ~PlatformSuppliesList
                 => /\ catalog.value = FallbackZones
                    /\ \E i \in DOMAIN catalog.value : catalog.value[i] = UTC

\* the platform call threw and the fallback list was used
C6_Witness ==
    /\ pc = "running"
    /\ platform.supportedValuesOf = "throws"
    /\ ~catalog.threw
    /\ Len(tzButtons) = Len(FallbackZones)

-----------------------------------------------------------------------------
(* C7 *)

\* C7 as stated: whatever the platform does, the list returned is non-empty
\* and duplicate-free, the platform's list in its order when it supplies one
\* and the fallback list otherwise.
C7_NonEmptyNoDuplicates ==
    pc = "running"
        => /\ catalog.value # << >>
           /\ NoDuplicates(catalog.value)
           /\ catalog.value = IF PlatformSuppliesList THEN platform.zones ELSE FallbackZones

\* C7, amended: the list returned is the platform's list, element for
\* element in its order, when the platform supplies one, and is then
\* non-empty and duplicate-free exactly when the platform's list is;
\* otherwise it is the fallback list, which is non-empty and duplicate-free.
C7_PlatformListAsIs ==
    pc = "running"
        => /\ PlatformSuppliesList
                 => /\ catalog.value = platform.zones
                    /\ (catalog.value # << >>) = (platform.zones # << >>)
                    /\ NoDuplicates(catalog.value) = NoDuplicates(platform.zones)
           /\ ~PlatformSuppliesList
                 => /\ catalog.value = FallbackZones
                    /\ catalog.value # << >>
                    /\ NoDuplicates(catalog.value)

\* the platform's list came back in the platform's order
C7_Witness ==
    /\ pc = "running"
    /\ PlatformSuppliesList
    /\ catalog.value = <<UTC, AustraliaBrisbane>>

-----------------------------------------------------------------------------
(* C8 *)

HasSlash(s) == \E i \in DOMAIN s : s[i] = "/"

LabelExamples ==
    /\ probe.in = AustraliaBrisbane => probe.out = BrisbaneLabel
    /\ probe.in = AmericaNewYork => probe.out = NewYorkLabel
    /\ probe.in = UTC => probe.out = UTC

\* C8 as stated: the label is the final segment with '_' as space, and an
\* identifier without '/' comes back unchanged.
C8_LabelAsStated ==
    probe.fn = "prettyLabelFromTimezone"
        => /\ HasSlash(probe.in) => UnderscoresAsSpaces(FinalSegment(probe.in), probe.out)
           /\ ~HasSlash(probe.in) => probe.out = probe.in
           /\ LabelExamples

\* C8, amended: the label is the final segment (the whole identifier when it
\* has no '/') with every '_' as a space, '_' of an identifier without '/'
\* included; only when that segment is empty (the identifier is empty or
\* ends in '/') the identifier comes back unchanged.
C8_LabelOfFinalSegment ==
    probe.fn = "prettyLabelFromTimezone"
        => /\ FinalSegment(probe.in) # << >>
                 => UnderscoresAsSpaces(FinalSegment(probe.in), probe.out)
           /\ FinalSegment(probe.in) = << >> => probe.out = probe.in
           /\ LabelExamples

\* "America/New_York" has been labelled "New York"
C8_Witness ==
    /\ probe.fn = "prettyLabelFromTimezone"
    /\ probe.in = AmericaNewYork
    /\ probe.out = NewYorkLabel

-----------------------------------------------------------------------------
(* C9 *)

\* C9: the stable key holds only characters of [a-z0-9-_]; it is the input
\* with every '/' and every run of whitespace as one hyphen, every other
\* character outside [A-Za-z0-9-_] dropped and letters lowercased;
\* "Australia/Brisbane" gives "australia-brisbane".
C9_StableKey ==
    probe.fn = "sanitizeTestId"
        => /\ Range(probe.out) \subseteq KeyChars
           /\ probe.out = KeyUpTo(probe.in, Len(probe.in))
           /\ probe.in = AustraliaBrisbane => probe.out = BrisbaneKey

\* "Australia/Brisbane" has been keyed
C9_Witness ==
    /\ probe.fn = "sanitizeTestId"
    /\ probe.in = AustraliaBrisbane
    /\ probe.out = BrisbaneKey

-----------------------------------------------------------------------------
(* C10 *)

InitCompleted == lastCall.op = "init" /\ ~lastCall.threw

\* C10 as stated: when init() has completed and no control has been
\* activated, the default is selected and shown, one control is active and
\* it is the default's, and the slots have been written once for the
\* default; after the "UTC" control is activated the city name is "UTC",
\* the UTC control is active and the default's is not.  Stated for the
\* catalogues that list the default once.
C10_OneDefaultControlActive ==
    /\ (InitCompleted /\ Cardinality(Tagged(AustraliaBrisbane) \cap BarControls) = 1)
          => /\ selectedTimezone = AustraliaBrisbane
             /\ cityNameEl = BrisbaneLabel
             /\ Cardinality(ActiveControls) = 1
             /\ ActiveControls = Tagged(AustraliaBrisbane)
             /\ shown.writes = "once"
             /\ shown.clockTz = AustraliaBrisbane /\ shown.dateTz = AustraliaBrisbane
    /\ (lastCall.op = "selectTimezone" /\ lastCall.arg = UTC)
          => /\ cityNameEl = UTC
             /\ Tagged(UTC) \subseteq ActiveControls
             /\ Tagged(AustraliaBrisbane) \cap ActiveControls = {}

\* C10, amended: when init() has completed and no control has been
\* activated, the default is selected and shown, the active controls are
\* exactly the controls tagged with the default (none, one or several), and
\* the slots have been written once for the default; after a "UTC" control
\* is activated the city name is "UTC", every UTC control is active and no
\* control of the default is.
C10_DefaultControlsActive ==
    /\ InitCompleted
          => /\ selectedTimezone = AustraliaBrisbane
             /\ cityNameEl = BrisbaneLabel
             /\ ActiveControls = Tagged(AustraliaBrisbane)
             /\ shown.writes = "once"
             /\ shown.clockTz = AustraliaBrisbane /\ shown.dateTz = AustraliaBrisbane
    /\ (lastCall.op = "selectTimezone" /\ lastCall.arg = UTC)
          => /\ cityNameEl = UTC
             /\ Tagged(UTC) # {}
             /\ Tagged(UTC) \subseteq ActiveControls
             /\ Tagged(AustraliaBrisbane) \cap ActiveControls = {}

\* the UTC control was activated while a control of the default exists
C10_Witness ==
    /\ lastCall.op = "selectTimezone"
    /\ lastCall.arg = UTC
    /\ cityNameEl = UTC
    /\ Tagged(UTC) # {}
    /\ Tagged(AustraliaBrisbane) # {}
    /\ shown.writes = "many"

-----------------------------------------------------------------------------
(* C11 *)

\* a tick has run last, and when the Formatter resolves the selected zone it
\* has written both slots for that zone at the instant of the tick
RefreshedForSelection ==
    /\ lastCall.op = "updateClock"
    /\ Resolves(selectedTimezone)
          => /\ ~lastCall.threw
             /\ shown.clockTz = selectedTimezone
             /\ shown.clockAt = lastCall.at

\* C11 as stated, its last part: with the timer armed, after any
\* selectTimezone a tick follows that has refreshed the time and date for
\* the selected zone.
C11_RefreshedAfterAnySelect ==
    (timer /\ lastCall.op = "selectTimezone")
        ~> (/\ lastCall.op = "updateClock"
            /\ ~lastCall.threw
            /\ shown.clockTz = selectedTimezone)

\* C11, amended: init() calls updateClock once; when init() has completed
\* the timer is armed, and no step disarms an armed timer; with ticks
\* scheduled fairly updateClock runs again and again, and after any
\* selectTimezone a tick follows that has refreshed the time and date for
\* the selected zone if the Formatter resolves that zone (the tick throws
\* and writes nothing if it does not).
C11_TimerStaysArmed ==
    /\ [](InitCompleted => timer /\ shown.writes = "once")
    /\ [][timer => timer']_vars
    /\ [](timer => <>(lastCall.op = "updateClock"))
    /\ (timer /\ lastCall.op = "selectTimezone") ~> RefreshedForSelection

\* a tick has refreshed the slots after a selection, a second later
C11_Witness ==
    /\ timer
    /\ lastCall.op = "updateClock"
    /\ lastCall.selected = AsiaTokyo
    /\ shown.clockTz = AsiaTokyo
    /\ shown.clockAt = now
    /\ now > 0
    /\ shown.writes = "many"

-----------------------------------------------------------------------------
(* C12 *)

ListenersAttached == \A i \in DOMAIN coreCityButtons : coreCityButtons[i].listening

\* C12: when the Formatter has failed in a handler (init's first
\* updateClock, a tick, or selectTimezone), the exception has left that
\* handler, and afterwards the interval timer is armed and the click
\* listeners are in place.
C12_TimerSurvivesFormatterFailure ==
    (pc = "running" /\ lastCall.threw) => (timer /\ ListenersAttached)

-----------------------------------------------------------------------------
(* C13 *)

-----------------------------------------------------------------------------
(* C14 *)

\* t is the label of tz: its final segment with '_' as space, tz itself
\* when that segment is empty
IsLabelOf(t, tz) ==
    IF FinalSegment(tz) # << >> THEN UnderscoresAsSpaces(FinalSegment(tz), t) ELSE t = tz

\* the bar's buttons without their active class
BarContent ==
    [i \in DOMAIN tzButtons |->
        <<tzButtons[i].timezone, tzButtons[i].textContent, tzButtons[i].testid>>]

\* every button of the bar carries the label and the stable key of its zone
BarLabelledAndKeyed ==
    \A i \in DOMAIN tzButtons :
        /\ IsLabelOf(tzButtons[i].textContent, tzButtons[i].timezone)
        /\ tzButtons[i].testid = KeyUpTo(tzButtons[i].timezone, Len(tzButtons[i].timezone))

\* C14: once init() has run, the timezone bar holds one button per entry of
\* the list getAllTimeZones() returned, in the order of that list, each
\* tagged with its zone, labelled with the zone's label and keyed with the
\* zone's stable key; no selection or refresh after init() adds, removes,
\* reorders or relabels a button.
C14_BarIsTheCatalog ==
    /\ [](pc = "running"
            => [i \in DOMAIN tzButtons |-> tzButtons[i].timezone] = catalog.value)
    /\ [][/\ (pc = "load" /\ pc' = "running") => BarLabelledAndKeyed'
          /\ pc = "running" => BarContent' = BarContent]_vars

\* after a selection and a tick the bar still is the platform's list, in order
C14_Witness ==
    /\ lastCall.op = "updateClock"
    /\ lastCall.selected = UTC
    /\ [i \in DOMAIN tzButtons |-> tzButtons[i].timezone] = <<AsiaTokyo, AustraliaBrisbane, UTC>>
    /\ tzButtons[2].textContent = BrisbaneLabel
    /\ tzButtons[2].testid = BrisbaneKey

-----------------------------------------------------------------------------
(* C15 *)

\* the argument of the last call is selected, named and marked
SelectionApplied ==
    /\ selectedTimezone = lastCall.arg
    /\ IsLabelOf(cityNameEl, lastCall.arg)
    /\ ActiveControls = Tagged(lastCall.arg)

\* C15: when the Formatter fails in selectTimezone(t), t is selected, the
\* city name is the label of t and the active controls are those tagged t,
\* while the time and date slots hold what they held before the call.
C15_SelectNotRolledBack ==
    [][(lastCall'.op = "selectTimezone" /\ lastCall'.threw)
          => /\ SelectionApplied'
             /\ clockEl' = clockEl
             /\ dateEl' = dateEl]_vars

\* a selection has failed on a page that shows the default zone's time
C15_Witness ==
    /\ lastCall.op = "selectTimezone"
    /\ lastCall.threw
    /\ lastCall.arg = AsiaKolkata
    /\ selectedTimezone = AsiaKolkata
    /\ shown.clockTz = AustraliaBrisbane
    /\ shown.writes = "once"

-----------------------------------------------------------------------------
(* C16 *)

\* C16: a click on a top-row button whose data-timezone is absent or empty
\* does not call selectTimezone and leaves selectedTimezone, the city name,
\* every control and both slots as they were.
C16_UntaggedClickDoesNothing ==
    [][(lastCall'.op \in {"click", "selectTimezone"} /\ ~Truthy(lastCall'.arg))
          => /\ lastCall'.op = "click"
             /\ UNCHANGED <<selectedTimezone, cityNameEl, coreCityButtons, tzButtons,
                            clockEl, dateEl>>]_vars

\* a button with an empty tag was clicked after UTC had been selected
C16_Witness ==
    /\ lastCall.op = "click"
    /\ lastCall.arg = EmptyString
    /\ lastCall.selected = UTC
    /\ selectedTimezone = UTC
    /\ ActiveControls = Tagged(UTC)

-----------------------------------------------------------------------------
(* C17 *)

\* C17: once a render has succeeded, the time slot and the date slot hold
\* the two outputs of one Formatter call: the same zone, the same instant.
C17_SlotsFromOneCall ==
    shown.writes # "none"
        => /\ shown.clockTz = shown.dateTz
           /\ shown.clockAt = shown.dateAt
           /\ clockEl = LocalSeconds(shown.clockTz, shown.clockAt) % SecondsPerDay
           /\ dateEl = LocalSeconds(shown.dateTz, shown.dateAt) \div SecondsPerDay

\* a tick has failed, a second after the last render that succeeded
C17_Witness ==
    /\ lastCall.op = "updateClock"
    /\ lastCall.threw
    /\ shown.writes # "none"
    /\ shown.clockTz = AustraliaBrisbane
    /\ shown.dateTz = AustraliaBrisbane
    /\ shown.clockAt < now

=============================================================================
